---- MODULE Spec2Model ----
(***************************************************************************)
(* Model of the list/detail views of the wallet front-end (Accounts,       *)
(* Addresses, Contracts) and of the shapeshift HTTP mock helpers.          *)
(*                                                                         *)
(* One view instance is mounted at a time.  Its React state, the props     *)
(* projected from the global store by mapStateToProps and the element tree *)
(* returned by render() are modelled; every handler is one action.  The    *)
(* handlers bound to the action bar buttons can fire in every state (the   *)
(* action bar is always rendered); the callbacks handed to a modal can     *)
(* fire only while render() returns that modal.                            *)
(***************************************************************************)
EXTENDS Integers, Sequences, FiniteSets, TLC

\* ------------------------------------------------------------------ bounds
MaxAddr == 2        \* number of address identifiers
MaxBalance == 1     \* balances range over 0..MaxBalance
MaxEvents == 3      \* handler invocations observed per mounted instance
MaxRequests == 2    \* descriptors in the list handed to mockget / mockpost
MaxPath == 2        \* request paths
MaxReply == 2       \* reply bodies of the descriptors
MaxBody == 2        \* request bodies of the POST requests

Addr == 1..MaxAddr
Views == {"Accounts", "Addresses", "Contracts"}

VARIABLES
  view,            \* class of the mounted view instance
  accountsState,   \* Accounts: this.state
  addressesState,  \* Addresses: this.state
  contractsState,  \* Contracts: this.state
  personal,        \* global store: state.personal
  balances,        \* global store: state.balances.balances
  dispatched,      \* actions the view has dispatched to the global store
  trace,           \* handlers invoked on the instance since it was mounted
  phase,           \* mock helper: "start" | "get" | "post"
  requests,        \* mock helper: the descriptor list handed to the helper
  interceptors,    \* mock helper: interceptors registered on the scope
  scopeBody,       \* mock helper: scope.body, a map from path to request body
  lastRequest,     \* mock helper: last HTTP request sent to the endpoint
  lastResponse     \* mock helper: the answer to lastRequest

viewVars == <<view, accountsState, addressesState, contractsState,
              personal, balances, dispatched, trace>>
mockVars == <<phase, requests, interceptors, scopeBody, lastRequest, lastResponse>>
vars == <<view, accountsState, addressesState, contractsState,
          personal, balances, dispatched, trace,
          phase, requests, interceptors, scopeBody, lastRequest, lastResponse>>

\* ---------------------------------------------------- initial view state
AccountsInitialState == [addressBook |-> FALSE, newDialog |-> FALSE]

AddressesInitialState == [showAdd |-> FALSE]

ContractsInitialStateOpen == [addContract |-> TRUE, deployContract |-> FALSE]

ContractsInitialState == [addContract |-> FALSE, deployContract |-> FALSE]

\* ------------------------------------------------------ the global store
\* state.personal as the reducer leaves it: each has* flag says whether its
\* collection has keys.
PersonalOf(accounts, contacts, contracts) ==
  [accounts |-> accounts, hasAccounts |-> accounts # {},
   contacts |-> contacts, hasContacts |-> contacts # {},
   contracts |-> contracts, hasContracts |-> contracts # {}]

PersonalInitialState == PersonalOf({}, {}, {})

BalancesInitialState == [a \in Addr |-> 0]

\* -------------------------------------------------------- mapStateToProps
AccountsMapStateToProps ==
  [accounts |-> personal.accounts,
   hasAccounts |-> personal.hasAccounts,
   balances |-> balances]

AddressesMapStateToProps ==
  [balances |-> balances,
   contacts |-> personal.contacts,
   hasContacts |-> personal.hasContacts]

ContractsMapStateToProps ==
  [accounts |-> personal.accounts,
   contracts |-> personal.contracts,
   hasContracts |-> personal.hasContracts,
   balances |-> balances]

\* ----------------------------------------------------------------- render
\* A conditional region is the empty sequence when the renderer returns null
\* and a one-element sequence otherwise.  A modal element carries its type
\* and the collection it is handed.
Modal(type, entries) == [type |-> type, entries |-> entries]

AccountsRenderNewDialog(props, state) ==
  IF ~state.newDialog THEN <<>>
  ELSE <<Modal("CreateAccount", props.accounts)>>

AccountsRender(props, state) ==
  [modals |-> AccountsRenderNewDialog(props, state),
   buttons |-> <<"newAccount">>,
   list |-> [link |-> "account", accounts |-> props.accounts,
             balances |-> props.balances, empty |-> ~props.hasAccounts]]

AddressesRenderAddAddress(props, state) ==
  IF ~state.showAdd THEN <<>>
  ELSE <<Modal("AddAddress", props.contacts)>>

AddressesRenderFlipped(props, state) ==
  [modals |-> AddressesRenderAddAddress(props, state),
   buttons |-> <<"newAddress">>,
   list |-> [link |-> "address", accounts |-> props.contacts,
             balances |-> props.balances, empty |-> props.hasContacts]]

AddressesRender(props, state) ==
  [modals |-> AddressesRenderAddAddress(props, state),
   buttons |-> <<"newAddress">>,
   list |-> [link |-> "address", accounts |-> props.contacts,
             balances |-> props.balances, empty |-> ~props.hasContacts]]

ContractsRenderAddContract(props, state) ==
  IF ~state.addContract THEN <<>>
  ELSE <<Modal("AddContract", props.contracts)>>

ContractsRenderDeployContract(props, state) ==
  IF ~state.deployContract THEN <<>>
  ELSE <<Modal("DeployContract", props.accounts)>>

ContractsRender(props, state) ==
  [modals |-> ContractsRenderAddContract(props, state)
              \o ContractsRenderAddContract(props, state)
              \o ContractsRenderDeployContract(props, state),
   buttons |-> <<"addContract", "deployContract">>,
   list |-> [link |-> "contract", accounts |-> props.contracts,
             balances |-> props.balances, empty |-> ~props.hasContracts]]

\* The element tree of the mounted instance.
Rendered ==
  CASE view = "Accounts" -> AccountsRender(AccountsMapStateToProps, accountsState)
    [] view = "Addresses" -> AddressesRender(AddressesMapStateToProps, addressesState)
    [] view = "Contracts" -> ContractsRender(ContractsMapStateToProps, contractsState)

\* ------------------------------------------------------------------ mount
\* A view class is instantiated: the instance gets the class's initial
\* state; the state of the instance it replaces is gone.
Mount(v) ==
  /\ view' = v
  /\ accountsState' = AccountsInitialState
  /\ addressesState' = AddressesInitialState
  /\ contractsState' = ContractsInitialState
  /\ trace' = <<>>
  /\ UNCHANGED <<personal, balances, dispatched>>
  /\ UNCHANGED mockVars

\* ------------------------------------------------------- Accounts handlers
Handled(name) ==
  /\ Len(trace) < MaxEvents
  /\ trace' = Append(trace, name)

onNewAccountClick ==
  /\ view = "Accounts"
  /\ Handled("onNewAccountClick")
  /\ accountsState' = [accountsState EXCEPT !.newDialog = ~accountsState.newDialog]
  /\ UNCHANGED <<view, addressesState, contractsState, personal, balances, dispatched>>
  /\ UNCHANGED mockVars

\* onNewAccountClose calls onNewAccountClick.  It is the onClose prop of the
\* CreateAccount element, which exists only while newDialog is true.
onNewAccountClose ==
  /\ view = "Accounts"
  /\ Len(AccountsRenderNewDialog(AccountsMapStateToProps, accountsState)) > 0
  /\ Handled("onNewAccountClose")
  /\ accountsState' = [accountsState EXCEPT !.newDialog = ~accountsState.newDialog]
  /\ UNCHANGED <<view, addressesState, contractsState, personal, balances, dispatched>>
  /\ UNCHANGED mockVars

onNewAccountUpdateDispatching ==
  /\ view = "Accounts"
  /\ Len(AccountsRenderNewDialog(AccountsMapStateToProps, accountsState)) > 0
  /\ Handled("onNewAccountUpdate")
  /\ dispatched' = Append(dispatched, "update")
  /\ UNCHANGED <<view, accountsState, addressesState, contractsState,
                 personal, balances>>
  /\ UNCHANGED mockVars

onNewAccountUpdate ==
  /\ view = "Accounts"
  /\ Len(AccountsRenderNewDialog(AccountsMapStateToProps, accountsState)) > 0
  /\ Handled("onNewAccountUpdate")
  /\ UNCHANGED <<view, accountsState, addressesState, contractsState,
                 personal, balances, dispatched>>
  /\ UNCHANGED mockVars

\* ------------------------------------------------------ Addresses handlers
onOpenAdd ==
  /\ view = "Addresses"
  /\ Handled("onOpenAdd")
  /\ addressesState' = [addressesState EXCEPT !.showAdd = TRUE]
  /\ UNCHANGED <<view, accountsState, contractsState, personal, balances, dispatched>>
  /\ UNCHANGED mockVars

onCloseAdd ==
  /\ view = "Addresses"
  /\ Len(AddressesRenderAddAddress(AddressesMapStateToProps, addressesState)) > 0
  /\ Handled("onCloseAdd")
  /\ addressesState' = [addressesState EXCEPT !.showAdd = FALSE]
  /\ UNCHANGED <<view, accountsState, contractsState, personal, balances, dispatched>>
  /\ UNCHANGED mockVars

\* ------------------------------------------------------ Contracts handlers
onDeployContractClose ==
  /\ view = "Contracts"
  /\ Len(ContractsRenderDeployContract(ContractsMapStateToProps, contractsState)) > 0
  /\ Handled("onDeployContractClose")
  /\ contractsState' = [contractsState EXCEPT !.deployContract = FALSE]
  /\ UNCHANGED <<view, accountsState, addressesState, personal, balances, dispatched>>
  /\ UNCHANGED mockVars

onDeployContract ==
  /\ view = "Contracts"
  /\ Handled("onDeployContract")
  /\ contractsState' = [contractsState EXCEPT !.deployContract = TRUE]
  /\ UNCHANGED <<view, accountsState, addressesState, personal, balances, dispatched>>
  /\ UNCHANGED mockVars

onAddContractClose ==
  /\ view = "Contracts"
  /\ Len(ContractsRenderAddContract(ContractsMapStateToProps, contractsState)) > 0
  /\ Handled("onAddContractClose")
  /\ contractsState' = [contractsState EXCEPT !.addContract = FALSE]
  /\ UNCHANGED <<view, accountsState, addressesState, personal, balances, dispatched>>
  /\ UNCHANGED mockVars

onAddContractExclusive ==
  /\ view = "Contracts"
  /\ Handled("onAddContract")
  /\ contractsState' = [addContract |-> TRUE, deployContract |-> FALSE]
  /\ UNCHANGED <<view, accountsState, addressesState, personal, balances, dispatched>>
  /\ UNCHANGED mockVars

onAddContract ==
  /\ view = "Contracts"
  /\ Handled("onAddContract")
  /\ contractsState' = [contractsState EXCEPT !.addContract = TRUE]
  /\ UNCHANGED <<view, accountsState, addressesState, personal, balances, dispatched>>
  /\ UNCHANGED mockVars

\* --------------------------------------------------- global store updates
\* The external state provider replaces one collection of state.personal,
\* or the balance of one address.
PersonalUpdate ==
  /\ \E s \in SUBSET Addr :
       \/ personal' = PersonalOf(s, personal.contacts, personal.contracts)
       \/ personal' = PersonalOf(personal.accounts, s, personal.contracts)
       \/ personal' = PersonalOf(personal.accounts, personal.contacts, s)
  /\ personal' # personal
  /\ UNCHANGED <<view, accountsState, addressesState, contractsState,
                 balances, dispatched, trace>>
  /\ UNCHANGED mockVars

BalancesUpdate ==
  /\ \E a \in Addr, b \in 0..MaxBalance :
       /\ balances[a] # b
       /\ balances' = [balances EXCEPT ![a] = b]
  /\ UNCHANGED <<view, accountsState, addressesState, contractsState,
                 personal, dispatched, trace>>
  /\ UNCHANGED mockVars


\* ------------------------------------------------- shapeshift mock helpers
Paths == 1..MaxPath
Replies == 1..MaxReply
Bodies == 1..MaxBody

\* The response codes the descriptors name.  A descriptor whose code is 0
\* stands for one with no code (undefined and 0 are both falsy in
\* `request.code || 200`).
Statuses == {201, 404}

Descriptors == [path : Paths, code : Statuses \cup {0}, reply : Replies]

DescriptorLists == UNION {[1..n -> Descriptors] : n \in 0..MaxRequests}

ReplyCodeAlwaysOk(code) == 200

\* request.code || 200
ReplyCode(code) == IF code = 0 THEN 200 ELSE code

\* The interceptors the forEach loop registers on the scope, one for each
\* descriptor, in the order of the list.
Register(method, reqs) ==
  [i \in 1..Len(reqs) |->
     [method |-> method, path |-> reqs[i].path, code |-> ReplyCode(reqs[i].code),
      reply |-> reqs[i].reply, done |-> FALSE]]

mockget ==
  /\ phase = "start"
  /\ phase' = "get"
  /\ interceptors' = Register("GET", requests)
  /\ UNCHANGED <<requests, scopeBody, lastRequest, lastResponse>>
  /\ UNCHANGED viewVars

mockpost ==
  /\ phase = "start"
  /\ phase' = "post"
  /\ interceptors' = Register("POST", requests)
  /\ UNCHANGED <<requests, scopeBody, lastRequest, lastResponse>>
  /\ UNCHANGED viewVars

\* The interceptors a request can be answered by: registered for its method
\* and path and not used yet (an interceptor answers one request).
Pending(method, path) ==
  {i \in 1..Len(interceptors) :
     /\ ~interceptors[i].done
     /\ interceptors[i].method = method
     /\ interceptors[i].path = path}

First(S) == CHOOSE i \in S : \A j \in S : i <= j

\* A GET to /<path>: the reply callback of mockget returns request.reply.
GetRequest(path) ==
  /\ phase # "start"
  /\ lastRequest' = [method |-> "GET", path |-> path, body |-> 0]
  /\ IF Pending("GET", path) = {}
       THEN /\ lastResponse' = [status |-> 0, body |-> 0, by |-> 0]
            /\ UNCHANGED interceptors
       ELSE LET i == First(Pending("GET", path)) IN
            /\ lastResponse' = [status |-> interceptors[i].code,
                                body |-> interceptors[i].reply, by |-> i]
            /\ interceptors' = [interceptors EXCEPT ![i].done = TRUE]
  /\ UNCHANGED <<phase, requests, scopeBody>>
  /\ UNCHANGED viewVars

\* A POST to /<path>: the reply callback of mockpost stores the request body
\* in scope.body[request.path] and returns request.reply.
PostRequest(path, body) ==
  /\ phase # "start"
  /\ lastRequest' = [method |-> "POST", path |-> path, body |-> body]
  /\ IF Pending("POST", path) = {}
       THEN /\ lastResponse' = [status |-> 0, body |-> 0, by |-> 0]
            /\ UNCHANGED <<interceptors, scopeBody>>
       ELSE LET i == First(Pending("POST", path)) IN
            /\ scopeBody' = [p \in (DOMAIN scopeBody) \cup {interceptors[i].path} |->
                               IF p = interceptors[i].path THEN body ELSE scopeBody[p]]
            /\ lastResponse' = [status |-> interceptors[i].code,
                                body |-> interceptors[i].reply, by |-> i]
            /\ interceptors' = [interceptors EXCEPT ![i].done = TRUE]
  /\ UNCHANGED <<phase, requests>>
  /\ UNCHANGED viewVars

\* ------------------------------------------------------------------- spec
MockIdle ==
  /\ phase = "start"
  /\ requests = <<>>
  /\ interceptors = <<>>
  /\ scopeBody = <<>>
  /\ lastRequest = [method |-> "none", path |-> 0, body |-> 0]
  /\ lastResponse = [status |-> 0, body |-> 0, by |-> 0]

ViewsIdle ==
  /\ view = "Accounts"
  /\ accountsState = AccountsInitialState
  /\ addressesState = AddressesInitialState
  /\ contractsState = ContractsInitialState
  /\ personal = PersonalInitialState
  /\ balances = BalancesInitialState
  /\ dispatched = <<>>
  /\ trace = <<>>

Init ==
  /\ view \in Views
  /\ accountsState = AccountsInitialState
  /\ addressesState = AddressesInitialState
  /\ contractsState = ContractsInitialState
  /\ personal = PersonalInitialState
  /\ balances = BalancesInitialState
  /\ dispatched = <<>>
  /\ trace = <<>>
  /\ MockIdle

Next ==
  \/ \E v \in Views : Mount(v)
  \/ onNewAccountClick
  \/ onNewAccountClose
  \/ onNewAccountUpdate
  \/ onOpenAdd
  \/ onCloseAdd
  \/ onDeployContractClose
  \/ onDeployContract
  \/ onAddContractClose
  \/ onAddContract
  \/ PersonalUpdate
  \/ BalancesUpdate

Spec == Init /\ [][Next]_vars

\* The mock helpers: a test hands a descriptor list to one of the helpers and
\* then sends requests to the endpoint.
InitMock ==
  /\ ViewsIdle
  /\ phase = "start"
  /\ requests \in DescriptorLists
  /\ interceptors = <<>>
  /\ scopeBody = <<>>
  /\ lastRequest = [method |-> "none", path |-> 0, body |-> 0]
  /\ lastResponse = [status |-> 0, body |-> 0, by |-> 0]

NextMock ==
  \/ mockget
  \/ mockpost
  \/ \E path \in Paths : GetRequest(path)
  \/ \E path \in Paths, body \in Bodies : PostRequest(path, body)

SpecMock == InitMock /\ [][NextMock]_vars

\* ------------------------------------------------------------- vocabulary
OpenHandlers == {"onNewAccountClick", "onOpenAdd", "onAddContract", "onDeployContract"}

CloseHandlers == {"onNewAccountClose", "onCloseAdd", "onAddContractClose",
                  "onDeployContractClose"}

\* The dialog a handler is about.
DialogOf(handler) ==
  CASE handler \in {"onNewAccountClick", "onNewAccountClose", "onNewAccountUpdate"}
         -> "CreateAccount"
    [] handler \in {"onOpenAdd", "onCloseAdd"} -> "AddAddress"
    [] handler \in {"onAddContract", "onAddContractClose"} -> "AddContract"
    [] handler \in {"onDeployContract", "onDeployContractClose"} -> "DeployContract"

\* The dialogs of the mounted view, its dialog-open flags and the collection
\* of the current props each dialog is to be handed.
Dialogs ==
  CASE view = "Accounts" -> {"CreateAccount"}
    [] view = "Addresses" -> {"AddAddress"}
    [] view = "Contracts" -> {"AddContract", "DeployContract"}

Flag(dialog) ==
  CASE dialog = "CreateAccount" -> accountsState.newDialog
    [] dialog = "AddAddress" -> addressesState.showAdd
    [] dialog = "AddContract" -> contractsState.addContract
    [] dialog = "DeployContract" -> contractsState.deployContract

AllFlags ==
  CASE view = "Accounts" -> <<accountsState.addressBook, accountsState.newDialog>>
    [] view = "Addresses" -> <<addressesState.showAdd>>
    [] view = "Contracts" -> <<contractsState.addContract, contractsState.deployContract>>

OpenFlags == {i \in DOMAIN AllFlags : AllFlags[i]}

CurrentEntries(dialog) ==
  CASE dialog = "CreateAccount" -> personal.accounts
    [] dialog = "AddAddress" -> personal.contacts
    [] dialog = "AddContract" -> personal.contracts
    [] dialog = "DeployContract" -> personal.accounts

LastHandler == trace[Len(trace)]

OnlyOpens == trace # <<>> /\ \A i \in DOMAIN trace : trace[i] \in OpenHandlers

ModalCount(dialog) ==
  Cardinality({i \in DOMAIN Rendered.modals : Rendered.modals[i].type = dialog})

\* TRUE iff the last handler of the trace among open and close is open.
LastEffect(open, close) ==
  LET at == {i \in DOMAIN trace : trace[i] \in {open, close}} IN
  IF at = {} THEN FALSE
  ELSE trace[CHOOSE i \in at : \A j \in at : j <= i] = open

\* ----------------------------------------------------------------- claims

\* C1: after a sequence of button presses (and nothing else) on a freshly
\* mounted view, exactly one modal is rendered, the dialog of the last press,
\* and it is handed the current entries.
C1_OneModalAfterOpens ==
  OnlyOpens =>
    Rendered.modals = <<Modal(DialogOf(LastHandler), CurrentEntries(DialogOf(LastHandler)))>>

\* C2: after a dialog's close callback, no modal is rendered.
C2_CloseLeavesNoModal ==
  (trace # <<>> /\ LastHandler \in CloseHandlers) => Rendered.modals = <<>>

\* C3: at most one dialog-open flag of the view's state is true.
C3_AtMostOneFlag == Cardinality(OpenFlags) <= 1

\* C4: after a button press the dialog's flag is true, whatever it was
\* before; after the dialog's close callback it is false.
C4_PressOpensCloseCloses ==
  trace # <<>> =>
    /\ LastHandler \in OpenHandlers => Flag(DialogOf(LastHandler))
    /\ LastHandler \in CloseHandlers => ~Flag(DialogOf(LastHandler))

\* C5: on a mounted instance no handler of which has run yet, every
\* dialog-open flag is false and no modal is rendered.
C5_ClosedAfterMount ==
  trace = <<>> => (OpenFlags = {} /\ Rendered.modals = <<>>)

C5_Witness ==
  /\ trace = <<>>
  /\ view = "Contracts"
  /\ personal.contracts # {}
  /\ personal.accounts # {}

\* C6: the empty flag handed to the List is true iff the collection handed
\* to it alongside has no keys.
C6_EmptyIffNoEntries ==
  Rendered.list.empty <=> (Rendered.list.accounts = {})

C6_Witness ==
  /\ view = "Addresses"
  /\ Rendered.list.accounts = Addr
  /\ ~Rendered.list.empty
  /\ personal.accounts = {}

\* C8: a handler of the view leaves the entries collections and the balance
\* map as they are and changes no other instance's state, and the view never
\* dispatches an action to the store.
C8_HandlersKeepDomainData ==
  /\ [](dispatched = <<>>)
  /\ [][Len(trace') = Len(trace) + 1 =>
          /\ UNCHANGED <<personal, balances, dispatched, view>>
          /\ view # "Accounts" => UNCHANGED accountsState
          /\ view # "Addresses" => UNCHANGED addressesState
          /\ view # "Contracts" => UNCHANGED contractsState]_vars

C8_Witness ==
  /\ Len(trace) = MaxEvents
  /\ personal.accounts # {}
  /\ \E a \in Addr : balances[a] # 0
  /\ OpenFlags # {}

\* C9: a dialog whose flag is true is rendered exactly once, a dialog whose
\* flag is false is not rendered.
C9_EachRegionOnce ==
  \A d \in Dialogs : ModalCount(d) = IF Flag(d) THEN 1 ELSE 0

\* C10: in the Contracts view each flag is the effect of the last handler
\* addressed to its dialog (false if there was none): no handler changes the
\* other dialog's flag.
C10_ContractsFlagsIndependent ==
  view = "Contracts" =>
    /\ contractsState.addContract = LastEffect("onAddContract", "onAddContractClose")
    /\ contractsState.deployContract = LastEffect("onDeployContract", "onDeployContractClose")

C10_Witness ==
  /\ view = "Contracts"
  /\ trace = <<"onAddContract", "onDeployContract", "onAddContractClose">>
  /\ contractsState.deployContract
  /\ ~contractsState.addContract

\* C7: a request that an unused descriptor of the list matches is answered,
\* with the descriptor's code (200 when it names none) and its reply; a POST
\* that is answered leaves its body in scope.body under the descriptor's
\* path, and the entries of scope.body under the other paths stay.
Answered == lastResponse.by # 0

C7_MockAnswersAsDescribed ==
  /\ [](Answered =>
          LET d == requests[lastResponse.by] IN
          /\ d.path = lastRequest.path
          /\ lastRequest.method = (IF phase = "get" THEN "GET" ELSE "POST")
          /\ lastResponse.status = (IF d.code = 0 THEN 200 ELSE d.code)
          /\ lastResponse.body = d.reply
          /\ phase = "post" =>
               /\ lastRequest.path \in DOMAIN scopeBody
               /\ scopeBody[lastRequest.path] = lastRequest.body)
  /\ []((lastRequest.method # "none" /\ ~Answered) =>
          Pending(lastRequest.method, lastRequest.path) = {})
  /\ [](phase = "get" => scopeBody = <<>>)
  /\ [][\A p \in DOMAIN scopeBody :
          /\ p \in DOMAIN scopeBody'
          /\ p # lastRequest'.path => scopeBody'[p] = scopeBody[p]]_vars

C7_Witness ==
  /\ phase = "post"
  /\ Answered
  /\ requests[lastResponse.by].code = 0
  /\ lastResponse.by = 2
  /\ DOMAIN scopeBody = {1, 2}
  /\ scopeBody[1] # scopeBody[2]

====
